---- MODULE Spec2Model ----
(***************************************************************************)
(* ezcap-express: the zcap invocation pipeline (authorizeZcapInvocation)   *)
(* and the zcap revocation pipeline (authorizeZcapRevocation) as state     *)
(* machines over express requests.                                         *)
(*                                                                         *)
(* A string is a sequence of atoms: the characters "/", ":", "%" that the  *)
(* code's string operations look at, and words (letters the operations     *)
(* never split).  A JavaScript value is a record [t, s, a]: its type tag,  *)
(* its atoms when it is a string, its elements when it is an array.        *)
(***************************************************************************)
EXTENDS Naturals, Sequences, FiniteSets, TLC

(***************************************************************************)
(* Bounds of the model.                                                    *)
(***************************************************************************)
NumReqs == 2

\* the loads one request makes through the root capability loader when the
\* loader is exercised on its own
MaxLoads == 2

Reqs == 1..NumReqs

(***************************************************************************)
(* Strings.                                                                *)
(***************************************************************************)
ZCAP_ROOT_PREFIX == <<"urn", ":", "zcap", ":", "root", ":">>

HTTPS == <<"https", ":", "/", "/">>

REVOCATIONS == <<"/", "revocations", "/">>

StartsWith(s, p) ==
    /\ Len(p) <= Len(s)
    /\ SubSeq(s, 1, Len(p)) = p

\* String.prototype.indexOf, 1-based; 0 when sub does not occur in s
\* (JavaScript's -1).
IndexOf(s, sub) ==
    LET hits == {i \in 1..(Len(s) + 1) :
                    /\ i + Len(sub) - 1 <= Len(s)
                    /\ SubSeq(s, i, i + Len(sub) - 1) = sub}
    IN IF hits = {} THEN 0 ELSE CHOOSE i \in hits : \A j \in hits : i <= j

Includes(s, sub) == IndexOf(s, sub) # 0

EncodeAtom(c) ==
    CASE c = "/" -> <<"%", "2F">>
      [] c = ":" -> <<"%", "3A">>
      [] c = "%" -> <<"%", "25">>
      [] OTHER -> <<c>>

RECURSIVE encodeURIComponent(_)
encodeURIComponent(s) ==
    IF s = <<>> THEN <<>>
    ELSE EncodeAtom(Head(s)) \o encodeURIComponent(Tail(s))

DecodeEscape(h) ==
    CASE h = "2F" -> "/"
      [] h = "3A" -> ":"
      [] h = "25" -> "%"
      [] OTHER -> "?"

\* decodeURIComponent: [ok, s]; ok is FALSE where JavaScript throws URIError
\* (a "%" that no escape follows).
RECURSIVE decodeURIComponent(_)
decodeURIComponent(s) ==
    IF s = <<>> THEN [ok |-> TRUE, s |-> <<>>]
    ELSE IF Head(s) = "%"
    THEN IF Len(s) >= 2 /\ DecodeEscape(s[2]) # "?"
         THEN LET rest == decodeURIComponent(SubSeq(s, 3, Len(s)))
              IN [ok |-> rest.ok, s |-> <<DecodeEscape(s[2])>> \o rest.s]
         ELSE [ok |-> FALSE, s |-> <<>>]
    ELSE LET rest == decodeURIComponent(Tail(s))
         IN [ok |-> rest.ok, s |-> <<Head(s)>> \o rest.s]

(***************************************************************************)
(* JavaScript values.                                                      *)
(***************************************************************************)
Undefined == [t |-> "undefined", s |-> <<>>, a |-> <<>>]

Str(s) == [t |-> "string", s |-> s, a |-> <<>>]

Num == [t |-> "number", s |-> <<>>, a |-> <<>>]

\* an array of strings and numbers, each element [t, s]
Arr(elems) == [t |-> "array", s |-> <<>>, a |-> elems]

El(s) == [t |-> "string", s |-> s]

ElNum == [t |-> "number", s |-> <<>>]

(***************************************************************************)
(* Errors: name, message, httpStatusCode (0: the property is not set) and  *)
(* the name of the error it wraps as its cause ("" for none).              *)
(***************************************************************************)
Err(name, message, code, cause) ==
    [name |-> name, message |-> message, httpStatusCode |-> code,
     cause |-> cause]

NoError == Err("", "", 0, "")

(***************************************************************************)
(* The pipelines' configuration, fixed when they are assembled.            *)
(***************************************************************************)
EXPECTED_HOST == <<"localhost">>

OnErrorModes == {"absent", "returns", "throws"}

Parties == {"admin", "delegate", "other"}

VARIABLES
    config,   \* onError: absent, or what the host's handler does with an
              \* error; inspect: whether inspectCapabilityChain is supplied
    pc,       \* per request: the middleware about to run, or how it ended
    req,      \* per request: the express request object
    res,      \* per request: the express response (statusCode, sent)
    fail,     \* per request: the error of the stage that failed, whether it
              \* was given to onError, whether it rejected the handler
    log,      \* per request: the library and host calls made, in order
    loads     \* per request: the root capabilities loaded, in order

vars == <<config, pc, req, res, fail, log, loads>>

(***************************************************************************)
(* helpers.handleError.  res.status is express's setter, a function, so    *)
(* `res.status < 400` compares NaN with 400.                               *)
(***************************************************************************)
ResStatusBelow400(statusCode) == FALSE

\* a faulty variant: throwError is not looked at
HandleError_alwaysThrows(statusCode, error, onError, throwError) ==
    [statusCode |->
        IF error.httpStatusCode # 0 THEN error.httpStatusCode
        ELSE statusCode,
     reported |-> onError # "absent",
     thrown |-> onError \in {"throws", "absent"}]

HandleError(statusCode, error, onError, throwError) ==
    [statusCode |->
        IF error.httpStatusCode # 0 THEN error.httpStatusCode
        ELSE IF ResStatusBelow400(statusCode) THEN 500
        ELSE statusCode,
     reported |-> onError # "absent",
     thrown |-> \/ onError = "throws"
                \/ onError = "absent" /\ throwError]

(***************************************************************************)
(* The request before any middleware has read it.  A field holds "unread"  *)
(* (or an empty value) until the middleware that reads it runs.            *)
(***************************************************************************)
NoBody == [kind |-> "undefined", bytes |-> ""]

NoEzcap ==
    [set |-> FALSE, signature |-> FALSE, expectedAction |-> Undefined,
     expectedHost |-> Undefined, expectedRootCapability |-> Undefined,
     expectedTarget |-> Undefined]

\* what getExpectedValues answered, once it has been called
NoAnswer ==
    [asked |-> FALSE, threw |-> NoError,
     value |-> [isObject |-> FALSE, action |-> Undefined, host |-> Undefined,
                rootInvocationTarget |-> Undefined, target |-> Undefined]]

NoZcap == [set |-> FALSE, verified |-> FALSE, invoker |-> "", root |-> <<>>]

NoZcapRevocation ==
    [set |-> FALSE, delegator |-> "", capabilityChain |-> <<>>,
     chainControllers |-> <<>>]

NoCapability ==
    [id |-> Undefined, rootTarget |-> <<>>, controllers |-> <<>>,
     proof |-> FALSE]

NoInvocation ==
    [keyController |-> "", rootTarget |-> <<>>, delegatedTo |-> "",
     chainLength |-> 0, ttl |-> 0]

FreshReq ==
    [pipeline |-> "", method |-> "unread", originalUrl |-> <<>>,
     revocationId |-> Undefined, authorization |-> "unread",
     bodyHeaders |-> {}, received |-> "", digest |-> "", body |-> NoBody,
     expected |-> NoAnswer, capability |-> NoCapability,
     invocation |-> NoInvocation,
     ezcap |-> NoEzcap, zcap |-> NoZcap, zcapRevocation |-> NoZcapRevocation,
     inspections |-> <<>>]

FreshRes == [statusCode |-> 200, sent |-> FALSE]

NoFail == [stage |-> "", error |-> NoError, reported |-> FALSE, thrown |-> FALSE]

\* the defaults of authorizeZcapInvocation and of
\* authorizeZcapInvocationAfterParse; maxDelegationTtl is counted in days
\* (the source counts milliseconds: 1000 * 60 * 60 * 24 * 90)
DefaultLimits ==
    [maxChainLength |-> 10, maxClockSkew |-> 300, maxDelegationTtl |-> 90]

\* the limits a host gives authorizeZcapInvocation: none, or tighter ones
HostLimits ==
    {DefaultLimits,
     [maxChainLength |-> 2, maxClockSkew |-> 300, maxDelegationTtl |-> 30]}

\* authorize.js holds two definitions of authorizeZcapInvocation and of
\* authorizeZcapInvocationAfterParse; which of them a build exports is not
\* settled by the source
Definitions == {"first", "second"}

Init ==
    /\ config \in [onError : OnErrorModes, inspect : BOOLEAN,
                   definition : Definitions, limits : HostLimits]
    /\ pc = [r \in Reqs |-> "idle"]
    /\ req = [r \in Reqs |-> FreshReq]
    /\ res = [r \in Reqs |-> FreshRes]
    /\ fail = [r \in Reqs |-> NoFail]
    /\ log = [r \in Reqs |-> <<>>]
    /\ loads = [r \in Reqs |-> <<>>]

(***************************************************************************)
(* What a request can carry, and what the host's callbacks can answer.     *)
(***************************************************************************)
Methods ==
    {"GET", "HEAD", "OPTIONS", "POST", "PUT", "PATCH", "DELETE", "CONNECT",
     "TRACE", "LINK"}

Authorizations == {"missing", "malformed", "signature"}

\* the body headers a request carries
HeaderSets ==
    {{}, {"content-type"}, {"content-length"}, {"transfer-encoding"}}

\* the headers that say a request has a body
BodyHeaders(bodyHeaders) ==
    \/ "transfer-encoding" \in bodyHeaders
    \/ "content-length" \in bodyHeaders

\* the body bytes a request with body headers may bring: "" for none
Received(bodyHeaders) ==
    IF BodyHeaders(bodyHeaders) THEN {"", "b1", "b2"} ELSE {""}

\* req.body as the application's body parsers leave it: undefined (none
\* ran), {} (what body-parser leaves when there is no body), or the parsed
\* document; bytes is the data verifyHeaderValue digests
Parsed(received) ==
    IF received = "" THEN {NoBody, [kind |-> "empty", bytes |-> "b0"]}
    ELSE {NoBody, [kind |-> "doc", bytes |-> received]}

\* the digest header: "" when absent, else the bytes it is the digest of
Digests(bodyHeaders) ==
    IF BodyHeaders(bodyHeaders) THEN {"", "b1"} ELSE {""}

DocumentsPath == <<"/", "documents">>

\* the URLs the invocation pipeline is reached at, as req.originalUrl shows
\* them: the path, with or without a query
InvocationUrls == {DocumentsPath, DocumentsPath \o <<"?", "limit">>}

ServicePath == <<"/", "so">>

RevocationIds == {<<"urn", ":", "z1">>, <<"z2">>}

DocumentsTarget == HTTPS \o EXPECTED_HOST \o DocumentsPath

OtherTarget == HTTPS \o EXPECTED_HOST \o <<"/", "other">>

\* the routes the revocation pipeline is mounted on, as a request shows
\* them: originalUrl and params.revocationId
RevocationRoutes ==
    {[originalUrl |-> ServicePath \o REVOCATIONS \o encodeURIComponent(id),
      revocationId |-> Str(id)] : id \in RevocationIds}
    \cup {[originalUrl |-> ServicePath \o <<"/", "revoked", "/", "z2">>,
           revocationId |-> Str(<<"z2">>)],
          [originalUrl |-> ServicePath \o REVOCATIONS \o <<"z2">>,
           revocationId |-> Undefined],
          [originalUrl |-> ServicePath \o REVOCATIONS \o <<"z2", "/", "x">>,
           revocationId |-> Str(<<"z2">>)]}

Expected(action, host, rootInvocationTarget, target) ==
    [isObject |-> TRUE, action |-> action, host |-> host,
     rootInvocationTarget |-> rootInvocationTarget, target |-> target]

NotAnObject == [Expected(Undefined, Undefined, Undefined, Undefined)
                    EXCEPT !.isObject = FALSE]

GoodRoots == Arr(<<El(DocumentsTarget)>>)

\* what a host's getExpectedValues may return
HostExpectedValues ==
    {NotAnObject}
    \cup {Expected(Undefined, h, GoodRoots, Undefined) :
            h \in {Str(EXPECTED_HOST), Undefined, Num}}
    \cup {Expected(Undefined, Str(EXPECTED_HOST), t, Undefined) :
            t \in {Undefined, Num, Str(DocumentsTarget), Str(DocumentsPath),
                   Arr(<<>>), Arr(<<El(DocumentsTarget), El(OtherTarget)>>),
                   Arr(<<El(DocumentsTarget), El(DocumentsPath)>>),
                   Arr(<<El(DocumentsTarget), ElNum>>)}}
    \cup {Expected(a, Str(EXPECTED_HOST), GoodRoots, Undefined) :
            a \in {Str(<<"read">>), Str(<<"write">>), Num}}
    \cup {Expected(Undefined, Str(EXPECTED_HOST), GoodRoots, t) :
            t \in {Str(OtherTarget), Str(DocumentsPath), Num,
                   Arr(<<El(<<":">>)>>), Arr(<<El(DocumentsPath)>>)}}

\* the methods a request is tried with: every method against the plain
\* expected values; a reading, a writing and an unlisted one against the
\* others
MethodsTried(expected) ==
    IF /\ expected.action.t = "undefined"
       /\ expected.rootInvocationTarget = GoodRoots
       /\ expected.target.t = "undefined"
    THEN Methods
    ELSE {"GET", "POST", "LINK"}

\* what a host callback may throw: an error with or without httpStatusCode
HostErrors ==
    {Err("Error", "host error", 0, ""),
     Err("NotFoundError", "host error", 404, "")}

(***************************************************************************)
(* helpers.js: the expectation middleware's parts.                         *)
(***************************************************************************)
\* a faulty variant: the error is built without its httpStatusCode
MalformedAuthorization_noStatus ==
    Err("DataError", "Missing or invalid \"authorization\" header.", 0,
        "parseSignatureHeader")

MalformedAuthorization ==
    Err("DataError", "Missing or invalid \"authorization\" header.", 400,
        "parseSignatureHeader")

MissingDigest ==
    Err("DataError",
        "A \"digest\" header must be present when an HTTP body is present.",
        400, "")

DigestMismatch ==
    Err("DataError",
        "The \"digest\" header value does not match digest of body.", 400, "")

UnsupportedMethod ==
    Err("NotSupportedError",
        "The HTTP method has no expected capability action.", 400, "")

\* a faulty variant: the table before 4.3.1, with DELETE a reading method
\* and no entry for CONNECT and TRACE
DefaultActionForMethod_before431(method) ==
    CASE method \in {"GET", "HEAD", "OPTIONS", "DELETE"} -> Str(<<"read">>)
      [] method \in {"POST", "PUT", "PATCH"} -> Str(<<"write">>)
      [] OTHER -> Undefined

DefaultActionForMethod(method) ==
    CASE method \in {"GET", "HEAD", "OPTIONS"} -> Str(<<"read">>)
      [] method \in {"POST", "PUT", "PATCH", "DELETE", "CONNECT", "TRACE"} ->
            Str(<<"write">>)
      [] OTHER -> Undefined

Truthy(body) == body.kind # "undefined"

\* a faulty variant: the body detection before 3.4.2, which trusted req.body
hasBody_trustsBody(body, bodyHeaders) == Truthy(body)

hasBody(body, bodyHeaders) ==
    /\ Truthy(body)
    /\ \/ "transfer-encoding" \in bodyHeaders
       \/ "content-length" \in bodyHeaders

\* verifyHeaderValue of @digitalbazaar/http-digest-header: the header's
\* digest against the digest of the data
verifyHeaderValue(body, digest) == digest = body.bytes

_checkExpectedRootInvocationTarget(rootInvocationTarget) ==
    IF rootInvocationTarget.t = "string"
    THEN Includes(rootInvocationTarget.s, <<":">>)
    ELSE IF rootInvocationTarget.t = "array" /\ Len(rootInvocationTarget.a) > 0
    THEN \A i \in 1..Len(rootInvocationTarget.a) :
            /\ rootInvocationTarget.a[i].t = "string"
            /\ Includes(rootInvocationTarget.a[i].s, <<":">>)
    ELSE FALSE

\* the error _checkExpectedValues throws, NoError when it returns
_checkExpectedValues(expected) ==
    IF ~expected.isObject
    THEN Err("TypeError", "\"getExpectedValues\" must return an object.", 0, "")
    ELSE IF ~(expected.action.t \in {"undefined", "string"})
    THEN Err("TypeError", "Expected \"action\" must be a string.", 0, "")
    ELSE IF expected.host.t # "string"
    THEN Err("TypeError", "Expected \"host\" must be a string.", 0, "")
    ELSE IF ~_checkExpectedRootInvocationTarget(expected.rootInvocationTarget)
    THEN Err("Error", "Expected \"rootInvocationTarget\" must be a string or an array of strings, each of which expresses an absolute URI.", 0, "")
    ELSE IF expected.target.t = "number"
    \* target.includes is not a function
    THEN Err("TypeError", "target.includes is not a function", 0, "")
    ELSE IF /\ expected.target.t = "array"
            /\ \E i \in 1..Len(expected.target.a) : expected.target.a[i] = El(<<":">>)
    THEN Err("Error", "Expected \"target\" must be a string that expresses an absolute URI.", 0, "")
    ELSE NoError

\* a faulty variant: of a list of targets only the first gets an id
ExpectedRootCapability_firstOnly(rootInvocationTarget) ==
    IF rootInvocationTarget.t = "array"
    THEN Str(ZCAP_ROOT_PREFIX
                \o encodeURIComponent(rootInvocationTarget.a[1].s))
    ELSE Str(ZCAP_ROOT_PREFIX \o encodeURIComponent(rootInvocationTarget.s))

ExpectedRootCapability(rootInvocationTarget) ==
    IF rootInvocationTarget.t = "array"
    THEN Arr([i \in 1..Len(rootInvocationTarget.a) |->
                El(ZCAP_ROOT_PREFIX
                    \o encodeURIComponent(rootInvocationTarget.a[i].s))])
    ELSE Str(ZCAP_ROOT_PREFIX \o encodeURIComponent(rootInvocationTarget.s))

\* a faulty variant: the target is the host alone
DefaultTarget_hostOnly(host, originalUrl) == Str(HTTPS \o host.s)

DefaultTarget(host, originalUrl) == Str(HTTPS \o host.s \o originalUrl)

(***************************************************************************)
(* revoke.js: the service object and the synthesized expected values.      *)
(***************************************************************************)
_parseServiceObjectId(originalUrl, expectedHost) ==
    LET idx == IndexOf(originalUrl, REVOCATIONS)
    IN HTTPS \o expectedHost \o SubSeq(originalUrl, 1, idx - 1)

ZcapSpecificRootTarget(originalUrl, revocationId) ==
    _parseServiceObjectId(originalUrl, EXPECTED_HOST)
        \o REVOCATIONS \o encodeURIComponent(revocationId.s)

getExpectedValues(originalUrl, revocationId) ==
    Expected(Undefined, Str(EXPECTED_HOST),
             Arr(<<El(_parseServiceObjectId(originalUrl, EXPECTED_HOST)),
                   El(ZcapSpecificRootTarget(originalUrl, revocationId))>>),
             Undefined)

Misconfigured ==
    Err("Error", "Revocation middleware must be attached to a route ending in \"/revocations/:revocationId\".", 500, "")

(***************************************************************************)
(* How a middleware ends.                                                  *)
(***************************************************************************)
\* a faulty variant: the failure is recorded and the pipeline goes on to the
\* invocation verification
StageFails_fallsThrough(r, stage, error, calls) ==
    LET h == HandleError(res[r].statusCode, error, config.onError, TRUE)
    IN /\ res' = [res EXCEPT ![r].statusCode = h.statusCode]
       /\ fail' = [fail EXCEPT ![r] =
                        [stage |-> stage, error |-> error,
                         reported |-> h.reported, thrown |-> h.thrown]]
       /\ pc' = [pc EXCEPT ![r] = "invoke"]
       /\ log' = [log EXCEPT ![r] = @ \o calls]

\* `return helpers.handleError({res, error, onError})` inside asyncHandler:
\* a throw rejects the handler and asyncHandler passes the error to the
\* framework; when onError returns, the middleware returns having neither
\* called next nor sent a response.
StageFails(r, stage, error, calls) ==
    LET h == HandleError(res[r].statusCode, error, config.onError, TRUE)
    IN /\ res' = [res EXCEPT ![r].statusCode = h.statusCode]
       /\ fail' = [fail EXCEPT ![r] =
                        [stage |-> stage, error |-> error,
                         reported |-> h.reported, thrown |-> h.thrown]]
       /\ pc' = [pc EXCEPT ![r] = IF h.thrown THEN "error" ELSE "returned"]
       /\ log' = [log EXCEPT ![r] =
                        @ \o calls
                          \o (IF h.reported THEN <<"onError">> ELSE <<>>)]

\* an exception outside any try block: it rejects the handler
StageThrows(r, stage, error, calls) ==
    /\ res' = res
    /\ fail' = [fail EXCEPT ![r] =
                    [stage |-> stage, error |-> error, reported |-> FALSE,
                     thrown |-> TRUE]]
    /\ pc' = [pc EXCEPT ![r] = "error"]
    /\ log' = [log EXCEPT ![r] = @ \o calls]

\* process.nextTick(next)
StagePasses(r, nextStage, calls) ==
    /\ res' = res
    /\ fail' = fail
    /\ pc' = [pc EXCEPT ![r] = nextStage]
    /\ log' = [log EXCEPT ![r] = @ \o calls]

(***************************************************************************)
(* A request reaches the route its pipeline is mounted on.                 *)
(***************************************************************************)
ArriveInvocation(r) ==
    /\ pc[r] = "idle"
    /\ \E originalUrl \in InvocationUrls :
            req' = [req EXCEPT ![r] =
                        [FreshReq EXCEPT !.pipeline = "inv",
                                         !.originalUrl = originalUrl]]
    /\ pc' = [pc EXCEPT ![r] = "expect"]
    /\ UNCHANGED <<config, res, fail, log, loads>>

ArriveRevocation(r) ==
    /\ pc[r] = "idle"
    /\ \E route \in RevocationRoutes :
            req' = [req EXCEPT ![r] =
                        [FreshReq EXCEPT !.pipeline = "rev",
                                         !.originalUrl = route.originalUrl,
                                         !.revocationId = route.revocationId]]
    /\ pc' = [pc EXCEPT ![r] = "route"]
    /\ UNCHANGED <<config, res, fail, log, loads>>

(***************************************************************************)
(* revoke.js: the first middleware of the revocation pipeline.             *)
(***************************************************************************)
RouteMatches(originalUrl, revocationId) ==
    /\ Includes(originalUrl, REVOCATIONS)
    /\ revocationId.t = "string"
    /\ revocationId.s # <<>>

RouteCheck(r) ==
    /\ pc[r] = "route"
    /\ IF ~RouteMatches(req[r].originalUrl, req[r].revocationId)
       THEN StageFails(r, "route", Misconfigured, <<"route">>)
       ELSE StagePasses(r, "expect", <<"route">>)
    /\ UNCHANGED <<config, req, loads>>

(***************************************************************************)
(* helpers.createExpectationMiddleware.                                    *)
(***************************************************************************)
\* from the call of getExpectedValues to the end of the middleware; q is
\* the request as the digest check left it
ExpectationResolve(r, q0, calls) ==
    \E answer \in
        IF q0.pipeline = "rev"
        THEN {[threw |-> NoError,
               expected |-> getExpectedValues(q0.originalUrl,
                                              q0.revocationId)]}
        ELSE {[threw |-> NoError, expected |-> e] : e \in HostExpectedValues}
             \cup {[threw |-> e, expected |-> NotAnObject] : e \in HostErrors} :
        LET called == calls \o <<"getExpectedValues">>
            expected == answer.expected
            q == [q0 EXCEPT !.expected = [asked |-> TRUE,
                                          threw |-> answer.threw,
                                          value |-> expected]]
            checked == _checkExpectedValues(expected)
            target == IF expected.target.t = "undefined"
                      THEN DefaultTarget(expected.host, q.originalUrl)
                      ELSE expected.target
        IN IF answer.threw # NoError
           THEN /\ req' = [req EXCEPT ![r] = q]
                /\ StageFails(r, "expect", answer.threw, called)
           ELSE IF checked # NoError
           THEN /\ req' = [req EXCEPT ![r] = q]
                /\ StageFails(r, "expect", checked, called)
           ELSE \E method \in MethodsTried(expected) :
                    LET action == IF expected.action.t = "undefined"
                                  THEN DefaultActionForMethod(method)
                                  ELSE expected.action
                    IN IF action.t = "undefined"
                       THEN /\ req' = [req EXCEPT ![r] =
                                            [q EXCEPT !.method = method]]
                            /\ StageFails(r, "expect", UnsupportedMethod, called)
                       ELSE /\ req' = [req EXCEPT ![r] =
                                [q EXCEPT
                                    !.method = method,
                                    !.ezcap.expectedAction = action,
                                    !.ezcap.expectedHost = expected.host,
                                    !.ezcap.expectedRootCapability =
                                        ExpectedRootCapability(
                                            expected.rootInvocationTarget),
                                    !.ezcap.expectedTarget = target]]
                            /\ StagePasses(r,
                                    IF q.pipeline = "rev" THEN "deleg"
                                    ELSE "invoke", called)

ExpectationStage(r) ==
    /\ pc[r] = "expect"
    /\ UNCHANGED <<config, loads>>
    /\ \E authorization \in Authorizations :
        LET q0 == [req[r] EXCEPT !.authorization = authorization,
                                 !.ezcap.set = TRUE]
        IN IF authorization # "signature"
           THEN /\ req' = [req EXCEPT ![r] = q0]
                /\ StageFails(r, "expect", MalformedAuthorization,
                              <<"parseSignatureHeader">>)
           ELSE \E bodyHeaders \in HeaderSets :
                \E received \in Received(bodyHeaders),
                   digest \in Digests(bodyHeaders) :
                \E body \in Parsed(received) :
                LET q1 == [q0 EXCEPT !.ezcap.signature = TRUE,
                                     !.bodyHeaders = bodyHeaders,
                                     !.received = received,
                                     !.digest = digest,
                                     !.body = body]
                IN IF hasBody(body, bodyHeaders)
                   THEN IF digest = ""
                        THEN /\ req' = [req EXCEPT ![r] = q1]
                             /\ StageFails(r, "expect", MissingDigest,
                                           <<"parseSignatureHeader">>)
                        ELSE IF ~verifyHeaderValue(body, digest)
                        THEN /\ req' = [req EXCEPT ![r] = q1]
                             /\ StageFails(r, "expect", DigestMismatch,
                                     <<"parseSignatureHeader",
                                       "verifyHeaderValue">>)
                        ELSE ExpectationResolve(r, q1,
                                     <<"parseSignatureHeader",
                                       "verifyHeaderValue">>)
                   ELSE ExpectationResolve(r, [q1 EXCEPT !.body = NoBody],
                                           <<"parseSignatureHeader">>)

(***************************************************************************)
(* helpers.createRootCapabilityLoader and the getRootController it is      *)
(* given.  A controller is one party or an array of parties.               *)
(***************************************************************************)
One(party) == [array |-> FALSE, v |-> <<party>>]

Many(parties) == [array |-> TRUE, v |-> parties]

NoController == [array |-> FALSE, v |-> <<>>]

\* what the host's getRootController may answer
HostRootControllers ==
    {[threw |-> NoError, controller |-> One("admin")]}
    \cup {[threw |-> e, controller |-> NoController] : e \in HostErrors}

UnrelatedServiceObject ==
    Err("NotAllowedError", "The root capability from the revocation's delegation chain must have an invocation target that starts with the service object id.", 403, "")

ReadOfUndefined ==
    Err("TypeError", "Cannot read properties of undefined", 0, "")

Answer(threw, controller, source) ==
    [threw |-> threw, controller |-> controller, source |-> source]

\* a faulty variant: the host is asked for every root's controller
_getRootController_hostOnly(q, rootInvocationTarget, hostAnswer) ==
    Answer(hostAnswer.threw, hostAnswer.controller, "host")

\* revoke.js _wrapGetRootController
_getRootController(q, rootInvocationTarget, hostAnswer) ==
    IF rootInvocationTarget
            # ZcapSpecificRootTarget(q.originalUrl, q.revocationId)
    THEN Answer(hostAnswer.threw, hostAnswer.controller, "host")
    ELSE IF ~q.zcapRevocation.set
    THEN Answer(ReadOfUndefined, NoController, "chain")
    ELSE Answer(NoError, Many(q.zcapRevocation.chainControllers), "chain")

\* a faulty variant: the prefix is compared without the "/" that ends the
\* service object's last path segment
getRevocationRootController_prefixOnly(q, rootInvocationTarget, hostAnswer) ==
    LET serviceObjectId == _parseServiceObjectId(q.originalUrl, EXPECTED_HOST)
    IN IF ~StartsWith(rootInvocationTarget, serviceObjectId)
       THEN Answer(UnrelatedServiceObject, NoController, "none")
       ELSE _getRootController(q, rootInvocationTarget, hostAnswer)

\* revoke.js getRevocationRootController
getRevocationRootController(q, rootInvocationTarget, hostAnswer) ==
    LET serviceObjectId == _parseServiceObjectId(q.originalUrl, EXPECTED_HOST)
    IN IF ~(\/ rootInvocationTarget = serviceObjectId
            \/ StartsWith(rootInvocationTarget, serviceObjectId \o <<"/">>))
       THEN Answer(UnrelatedServiceObject, NoController, "none")
       ELSE _getRootController(q, rootInvocationTarget, hostAnswer)

\* the getRootController each stage hands to the loader
getRootController(q, stage, rootInvocationTarget, hostAnswer) ==
    IF q.pipeline = "inv"
    THEN Answer(hostAnswer.threw, hostAnswer.controller, "host")
    ELSE IF stage = "deleg"
    THEN getRevocationRootController(q, rootInvocationTarget, hostAnswer)
    ELSE _getRootController(q, rootInvocationTarget, hostAnswer)

\* helpers.getRootCapability behind rootCapabilityLoader, for a url that
\* starts with ZCAP_ROOT_PREFIX: the load as the loads log records it
getRootCapability(q, stage, rootCapabilityId, hostAnswer) ==
    LET decoded == decodeURIComponent(
                        SubSeq(rootCapabilityId, Len(ZCAP_ROOT_PREFIX) + 1,
                               Len(rootCapabilityId)))
        answer == getRootController(q, stage, decoded.s, hostAnswer)
    IN IF ~decoded.ok
       THEN [stage |-> stage, url |-> rootCapabilityId, target |-> <<>>,
             threw |-> Err("URIError", "URI malformed", 0, ""),
             source |-> "none", id |-> <<>>, controller |-> NoController]
       ELSE [stage |-> stage, url |-> rootCapabilityId, target |-> decoded.s,
             threw |-> answer.threw, source |-> answer.source,
             id |-> IF answer.threw = NoError
                    THEN ZCAP_ROOT_PREFIX \o encodeURIComponent(decoded.s)
                    ELSE <<>>,
             controller |-> answer.controller]

RootId(target) == ZCAP_ROOT_PREFIX \o encodeURIComponent(target)

IsExpectedRoot(id, expectedRootCapability) ==
    IF expectedRootCapability.t = "array"
    THEN \E i \in 1..Len(expectedRootCapability.a) :
            expectedRootCapability.a[i] = El(id)
    ELSE expectedRootCapability = Str(id)

(***************************************************************************)
(* revoke.js createCheckRevocationMiddleware.  jsigs.verify with the       *)
(* CapabilityDelegation purpose is a library: of what it does, the model   *)
(* keeps the root capability it loads through the loader it is given, the  *)
(* hook it calls with the dereferenced chain, and its verdict.             *)
(***************************************************************************)
\* a faulty variant: only the bare prefix counts as a root capability id
IsRootCapabilityId_exact(id) == id = ZCAP_ROOT_PREFIX

\* `capability.id.startsWith(helpers.ZCAP_ROOT_PREFIX)`
IsRootCapabilityId(id) == StartsWith(id, ZCAP_ROOT_PREFIX)

RootNotRevocable ==
    Err("NotAllowedError", "A root capability cannot be revoked.", 400, "")

InvalidDelegation(cause) ==
    Err("DataError", "The provided capability delegation is invalid.", 400,
        cause.name)

VerificationFailed == Err("Error", "verification failed", 0, "")

NotAFunction ==
    Err("TypeError", "inspectCapabilityChain is not a function", 0, "")

ServiceObjectId(q) == _parseServiceObjectId(q.originalUrl, EXPECTED_HOST)

\* the root invocation targets a submitted delegation chain may name
SubmittedRootTargets(q) ==
    {ServiceObjectId(q),
     ZcapSpecificRootTarget(q.originalUrl, q.revocationId),
     ServiceObjectId(q) \o <<"/", "sub">>,
     ServiceObjectId(q) \o <<"2">>,
     OtherTarget}

\* the controllers of the delegated capabilities of a submitted chain,
\* parent first
SubmittedControllers ==
    {<<One("delegate")>>,
     <<One("delegate"), One("other")>>,
     <<Many(<<"admin", "delegate">>)>>}

SubmittedIds ==
    {Undefined, Str(RootId(DocumentsTarget)), Str(<<"urn", ":", "z1">>)}

_getCapabilityControllers(capability) ==
    IF capability.controller.array THEN capability.controller.v
    ELSE <<capability.controller.v[1]>>

Capability(controller) == [controller |-> controller]

\* a faulty variant: the array the controllers are pushed to is created with
\* the middleware, not with each request, and holds what the requests
\* before have pushed
RECURSIVE _captureChainControllers_shared(_, _)
_captureChainControllers_shared(capabilityChain, n) ==
    IF n = 0
    THEN LET published == {r \in Reqs : req[r].zcapRevocation.set}
         IN IF published = {} THEN <<>>
            ELSE req[CHOOSE r \in published : TRUE]
                    .zcapRevocation.chainControllers
    ELSE _captureChainControllers_shared(capabilityChain, n - 1)
            \o (IF capabilityChain[n].controller.array
                THEN capabilityChain[n].controller.v
                ELSE <<capabilityChain[n].controller.v[1]>>)

\* the chainControllers _captureChainControllers has pushed once it has
\* been through the first n capabilities of the chain
RECURSIVE _captureChainControllers(_, _)
_captureChainControllers(capabilityChain, n) ==
    IF n = 0 THEN <<>>
    ELSE _captureChainControllers(capabilityChain, n - 1)
            \o _getCapabilityControllers(capabilityChain[n])

Elements(seq) == {seq[i] : i \in 1..Len(seq)}

\* the host's inspectCapabilityChain has been called in a stage and has
\* answered {valid}
Inspected(q, stage, valid) ==
    [q EXCEPT !.inspections = @ \o <<[stage |-> stage, valid |-> valid]>>]

\* a faulty variant: the wrapper answers {valid: true} whatever the host's
\* function answers
_inspectCapabilityChain_ignoresVeto(valid) == TRUE

\* `return inspectCapabilityChain(chainDetails)`: the wrapper answers what
\* the host's function answers
_inspectCapabilityChain(valid) == valid

\* a faulty variant: the failed verification is let through to the
\* invocation verification
DelegationFails_goesOn(r, q, cause, calls, loaded) ==
    /\ req' = [req EXCEPT ![r] = q]
    /\ loads' = [loads EXCEPT ![r] = @ \o loaded]
    /\ StagePasses(r, "invoke", <<"verifyDelegation">> \o calls)

DelegationFails(r, q, cause, calls, loaded) ==
    /\ req' = [req EXCEPT ![r] = q]
    /\ loads' = [loads EXCEPT ![r] = @ \o loaded]
    /\ StageFails(r, "deleg", InvalidDelegation(cause),
                  <<"verifyDelegation">> \o calls)

HostCalls(load) ==
    IF load.source = "host" THEN <<"getRootController">> ELSE <<>>

\* the verification from the load of the root capability on; the delegated
\* capabilities of the chain are read once the root is loaded
DelegationLoadsRoot(r, q1, expectedRoot) ==
    \E hostAnswer \in HostRootControllers :
        LET load == getRootCapability(q1, "deleg",
                                      RootId(q1.capability.rootTarget),
                                      hostAnswer)
            hooked == HostCalls(load) \o <<"_inspectCapabilityChain">>
        IN IF load.threw # NoError
           THEN DelegationFails(r, q1, load.threw, HostCalls(load), <<load>>)
           ELSE IF ~expectedRoot
           THEN DelegationFails(r, q1, VerificationFailed, HostCalls(load),
                                <<load>>)
           ELSE \E controllers \in SubmittedControllers :
                LET q == [q1 EXCEPT !.capability.controllers = controllers]
                    capabilityChain ==
                        <<Capability(load.controller)>>
                            \o [i \in 1..Len(controllers) |->
                                    Capability(controllers[i])]
                    chainControllers ==
                        _captureChainControllers(capabilityChain,
                                                 Len(capabilityChain))
                IN \E chainVerifies \in BOOLEAN :
                   IF ~chainVerifies
                   THEN DelegationFails(r, q, VerificationFailed,
                                        HostCalls(load), <<load>>)
                   ELSE IF ~config.inspect
                   THEN DelegationFails(r, q, NotAFunction, hooked, <<load>>)
                   ELSE \E valid \in BOOLEAN :
                        LET qi == Inspected(q, "deleg", valid) IN
                        IF ~_inspectCapabilityChain(valid)
                        THEN DelegationFails(r, qi, VerificationFailed,
                                hooked \o <<"inspectCapabilityChain">>,
                                <<load>>)
                        ELSE \E delegator \in
                               Elements(_getCapabilityControllers(
                                 capabilityChain[Len(capabilityChain) - 1])) :
                             /\ req' = [req EXCEPT ![r] =
                                   [qi EXCEPT !.zcapRevocation =
                                      [set |-> TRUE, delegator |-> delegator,
                                       capabilityChain |-> capabilityChain,
                                       chainControllers |-> chainControllers]]]
                             /\ loads' = [loads EXCEPT ![r] = @ \o <<load>>]
                             /\ StagePasses(r, "invoke",
                                   <<"verifyDelegation">> \o hooked
                                       \o <<"inspectCapabilityChain">>)

DelegationStage(r) ==
    /\ pc[r] = "deleg"
    /\ UNCHANGED config
    /\ IF ~Truthy(req[r].body) \/ req[r].body.kind = "empty"
       THEN /\ StageThrows(r, "deleg", ReadOfUndefined, <<>>)
            /\ UNCHANGED <<req, loads>>
       ELSE \E id \in SubmittedIds :
            LET q0 == [req[r] EXCEPT !.capability.id = id]
            IN IF id.t = "undefined"
               THEN /\ StageThrows(r, "deleg", ReadOfUndefined, <<>>)
                    /\ req' = [req EXCEPT ![r] = q0]
                    /\ UNCHANGED loads
               ELSE IF IsRootCapabilityId(id.s)
               THEN /\ StageFails(r, "deleg", RootNotRevocable, <<>>)
                    /\ req' = [req EXCEPT ![r] = q0]
                    /\ UNCHANGED loads
               ELSE \E proof \in BOOLEAN :
                    LET q == [q0 EXCEPT !.capability.proof = proof]
                    IN IF ~proof
                       THEN DelegationFails(r, q, VerificationFailed,
                                            <<>>, <<>>)
                       ELSE \E rootTarget \in SubmittedRootTargets(q) :
                            LET q1 == [q EXCEPT !.capability.rootTarget =
                                                    rootTarget]
                                expectedRoot ==
                                    IsExpectedRoot(RootId(rootTarget),
                                        q1.ezcap.expectedRootCapability)
                            IN \/ /\ ~expectedRoot
                                  /\ DelegationFails(r, q1,
                                        VerificationFailed, <<>>, <<>>)
                               \/ DelegationLoadsRoot(r, q1, expectedRoot)

(***************************************************************************)
(* authorize.js authorizeZcapInvocationAfterParse.                         *)
(* verifyCapabilityInvocation is a library: of what it does, the model     *)
(* keeps the getVerifier it is given, the root capability it loads through *)
(* the loader it is given, the inspectCapabilityChain it is given, and its *)
(* verdict.  What the loader throws is the error the verdict reports.      *)
(***************************************************************************)
\* the root invocation targets an invoked capability's chain may name
InvokedRootTargets(q) ==
    IF q.pipeline = "inv" THEN {DocumentsTarget, OtherTarget}
    ELSE {ServiceObjectId(q),
          ZcapSpecificRootTarget(q.originalUrl, q.revocationId),
          OtherTarget}

\* the invoked capability: the root itself (""), or one delegated to a party
InvokedDelegates == {"", "delegate"}

\* the getVerifier a host hands a pipeline in its options
HostGetVerifier == "options.getVerifier"

\* `getVerifier,` in the call of verifyCapabilityInvocation: the middleware
\* does not take a getVerifier from its options, and the name is the
\* function of the module, which resolves the key with crypto-ld
getVerifier(options) == "getVerifier"

\* the library calls the getVerifier it is given with {keyId, documentLoader}
VerifierCalls == <<"verifyCapabilityInvocation", getVerifier(HostGetVerifier)>>

\* the chain of the invoked capability, as the limits see it: its length,
\* root included, and the longest expires - created of its delegations, in
\* days
InvokedChains(delegatedTo) ==
    IF delegatedTo = "" THEN {[chainLength |-> 1, ttl |-> 0]}
    ELSE {[chainLength |-> 2, ttl |-> 20], [chainLength |-> 3, ttl |-> 20],
          [chainLength |-> 2, ttl |-> 120]}

\* the limits verifyCapabilityInvocation is called with.  The first
\* definition leaves them out of the call ("FIXME: enable these") and the
\* second passes on what authorizeZcapInvocation was given; the revocation
\* pipeline calls authorizeZcapInvocationAfterParse with none.  Where none
\* is passed the defaults hold.
PassedLimits(pipeline, definition, limits) ==
    IF pipeline = "inv" /\ definition = "second" THEN limits
    ELSE DefaultLimits

\* the library's checks of the chain against the limits it was called with
WithinLimits(invocation, limits) ==
    /\ invocation.chainLength <= limits.maxChainLength
    /\ invocation.ttl <= limits.maxDelegationTtl

\* a faulty variant: the failure is handled and next is called all the same
InvocationFails_callsNext(r, q, error, calls, loaded) ==
    LET h == HandleError(403, error, config.onError, FALSE)
    IN /\ req' = [req EXCEPT ![r] = q]
       /\ loads' = [loads EXCEPT ![r] = @ \o loaded]
       /\ res' = [res EXCEPT ![r].statusCode = h.statusCode]
       /\ fail' = [fail EXCEPT ![r] =
                    [stage |-> "invoke", error |-> error,
                     reported |-> h.reported, thrown |-> h.thrown]]
       /\ pc' = [pc EXCEPT ![r] = "handler"]
       /\ log' = [log EXCEPT ![r] =
                    @ \o VerifierCalls
                      \o calls]

\* `if(!result.verified)`: res.status(403), handleError without throwing
\* the error, res.send()
InvocationFails(r, q, error, calls, loaded) ==
    LET h == HandleError(403, error, config.onError, FALSE)
    IN /\ req' = [req EXCEPT ![r] = q]
       /\ loads' = [loads EXCEPT ![r] = @ \o loaded]
       /\ res' = [res EXCEPT ![r] =
                    [statusCode |-> h.statusCode, sent |-> ~h.thrown]]
       /\ fail' = [fail EXCEPT ![r] =
                    [stage |-> "invoke", error |-> error,
                     reported |-> h.reported, thrown |-> h.thrown]]
       /\ pc' = [pc EXCEPT ![r] = IF h.thrown THEN "error" ELSE "sent"]
       /\ log' = [log EXCEPT ![r] =
                    @ \o VerifierCalls
                      \o calls
                      \o (IF h.reported THEN <<"onError">> ELSE <<>>)]

\* a faulty variant: next is called without the result being published
InvocationVerified_noZcap(r, q, calls, loaded) ==
    /\ req' = [req EXCEPT ![r] = q]
    /\ loads' = [loads EXCEPT ![r] = @ \o loaded]
    /\ StagePasses(r, "handler",
            VerifierCalls \o calls)

\* `req.zcap = result; process.nextTick(next)`
InvocationVerified(r, q, calls, loaded) ==
    /\ req' = [req EXCEPT ![r] =
                [q EXCEPT !.zcap =
                    [set |-> TRUE, verified |-> TRUE,
                     invoker |-> q.invocation.keyController,
                     root |-> RootId(q.invocation.rootTarget)]]]
    /\ loads' = [loads EXCEPT ![r] = @ \o loaded]
    /\ StagePasses(r, "handler",
            VerifierCalls \o calls)

\* the verification from the load of the root capability on; the key that
\* signed and the capability it invokes are read once the root is loaded
InvocationLoadsRoot(r, q1, expectedRoot) ==
    \E hostAnswer \in HostRootControllers :
        LET load == getRootCapability(q1, "invoke",
                                      RootId(q1.invocation.rootTarget),
                                      hostAnswer)
        IN IF load.threw # NoError
           THEN InvocationFails(r, q1, load.threw, HostCalls(load), <<load>>)
           ELSE IF ~expectedRoot
           THEN InvocationFails(r, q1, VerificationFailed, HostCalls(load),
                                <<load>>)
           ELSE \E keyController \in Parties, delegatedTo \in InvokedDelegates :
                \E chain \in InvokedChains(delegatedTo) :
                LET q == [q1 EXCEPT !.invocation.keyController = keyController,
                                    !.invocation.delegatedTo = delegatedTo,
                                    !.invocation.chainLength =
                                        chain.chainLength,
                                    !.invocation.ttl = chain.ttl]
                    invoked == IF delegatedTo = ""
                               THEN Capability(load.controller)
                               ELSE Capability(One(delegatedTo))
                IN \E chainVerifies \in BOOLEAN :
                   IF \/ ~chainVerifies
                      \/ keyController
                            \notin Elements(_getCapabilityControllers(invoked))
                      \/ ~WithinLimits(q.invocation,
                                       PassedLimits(q.pipeline,
                                                    config.definition,
                                                    config.limits))
                   THEN InvocationFails(r, q, VerificationFailed,
                                        HostCalls(load), <<load>>)
                   ELSE IF ~config.inspect
                   THEN InvocationVerified(r, q, HostCalls(load), <<load>>)
                   ELSE \E valid \in BOOLEAN :
                        LET qi == Inspected(q, "invoke", valid) IN
                        IF ~valid
                        THEN InvocationFails(r, qi, VerificationFailed,
                                HostCalls(load)
                                    \o <<"inspectCapabilityChain">>,
                                <<load>>)
                        ELSE InvocationVerified(r, qi,
                                HostCalls(load)
                                    \o <<"inspectCapabilityChain">>,
                                <<load>>)

InvocationStage(r) ==
    /\ pc[r] = "invoke"
    /\ UNCHANGED config
    /\ \E signatureVerifies \in BOOLEAN :
        IF ~signatureVerifies
        THEN InvocationFails(r, req[r], VerificationFailed, <<>>, <<>>)
        ELSE \E rootTarget \in InvokedRootTargets(req[r]) :
             LET q1 == [req[r] EXCEPT !.invocation.rootTarget = rootTarget]
                 expectedRoot == IsExpectedRoot(RootId(rootTarget),
                                        q1.ezcap.expectedRootCapability)
             IN \/ /\ ~expectedRoot
                   /\ InvocationFails(r, q1, VerificationFailed, <<>>, <<>>)
                \/ InvocationLoadsRoot(r, q1, expectedRoot)

(***************************************************************************)
(* The framework: an error passed to next(err) reaches the application's   *)
(* error handler; a finished request leaves and its slot takes the next.   *)
(***************************************************************************)
FrameworkError(r) ==
    /\ pc[r] = "error"
    /\ res' = [res EXCEPT ![r] =
                    [statusCode |-> IF @.statusCode < 400 THEN 500
                                    ELSE @.statusCode,
                     sent |-> TRUE]]
    /\ pc' = [pc EXCEPT ![r] = "responded"]
    /\ UNCHANGED <<config, req, fail, log, loads>>

Terminal == {"handler", "sent", "returned", "responded"}

Leave(r) ==
    /\ pc[r] \in Terminal
    /\ pc' = [pc EXCEPT ![r] = "idle"]
    /\ req' = [req EXCEPT ![r] = FreshReq]
    /\ res' = [res EXCEPT ![r] = FreshRes]
    /\ fail' = [fail EXCEPT ![r] = NoFail]
    /\ log' = [log EXCEPT ![r] = <<>>]
    /\ loads' = [loads EXCEPT ![r] = <<>>]
    /\ UNCHANGED config

(***************************************************************************)
(* The specification: requests go through the pipelines one at a time, the *)
(* next one taking the lowest free slot.                                   *)
(***************************************************************************)
Alone(r) == \A o \in Reqs \ {r} : pc[o] = "idle"

LowestFree(r) == \A o \in Reqs : o < r => pc[o] # "idle"

Next ==
    \/ \E r \in Reqs : Alone(r) /\ LowestFree(r) /\ ArriveInvocation(r)
    \/ \E r \in Reqs : Alone(r) /\ LowestFree(r) /\ ArriveRevocation(r)
    \/ \E r \in Reqs : RouteCheck(r)
    \/ \E r \in Reqs : ExpectationStage(r)
    \/ \E r \in Reqs : DelegationStage(r)
    \/ \E r \in Reqs : InvocationStage(r)
    \/ \E r \in Reqs : FrameworkError(r)
    \/ \E r \in Reqs : Leave(r)

Spec == Init /\ [][Next]_vars

(***************************************************************************)
(* helpers.createRootCapabilityLoader on its own: the loader a stage hands  *)
(* to its verifier, called with any URL the verifier asks for.             *)
(***************************************************************************)
\* the URLs a verifier asks the loader for: root capability ids as
\* encodeURIComponent writes them, one written without escapes, one with a
\* malformed escape, and the URLs of a key and of a context
LoaderUrls ==
    {RootId(DocumentsTarget),
     RootId(HTTPS \o EXPECTED_HOST \o ServicePath),
     RootId(HTTPS \o EXPECTED_HOST \o ServicePath \o REVOCATIONS \o <<"z2">>),
     ZCAP_ROOT_PREFIX \o DocumentsTarget,
     ZCAP_ROOT_PREFIX \o <<"%", "zz">>,
     <<"did", ":", "key">>,
     HTTPS \o <<"w3id.org", "/", "zcap", "/", "v1">>}

\* what the base documentLoader may do with a URL
BaseAnswers ==
    {[threw |-> NoError, document |-> "document"],
     [threw |-> Err("NotFoundError", "Document not found.", 404, ""),
      document |-> ""]}

\* createRootCapability({controller, invocationTarget}), as the loader
\* returns it: {contextUrl: null, documentUrl: url, document}
RootDocument(url, load) ==
    [documentUrl |-> url,
     document |-> [id |-> load.id, invocationTarget |-> load.target,
                   controller |-> load.controller]]

\* a faulty variant: every URL goes to the base loader
rootCapabilityLoader_baseOnly(q, stage, url, hostAnswer, baseAnswer) ==
    [url |-> url, stage |-> stage, hostAnswer |-> hostAnswer,
     baseAnswer |-> baseAnswer,
     calls |-> <<[fn |-> "documentLoader", url |-> url]>>,
     threw |-> baseAnswer.threw,
     result |-> baseAnswer.document]

\* rootCapabilityLoader(url): one load, with the calls it made, what it
\* threw and what it returned
rootCapabilityLoader(q, stage, url, hostAnswer, baseAnswer) ==
    IF StartsWith(url, ZCAP_ROOT_PREFIX)
    THEN LET load == getRootCapability(q, stage, url, hostAnswer)
         IN [url |-> url, stage |-> stage, hostAnswer |-> hostAnswer,
             baseAnswer |-> baseAnswer,
             calls |-> IF load.threw.name = "URIError" THEN <<>>
                       ELSE <<[fn |-> "getRootController",
                               rootCapabilityId |-> url,
                               rootInvocationTarget |-> load.target]>>,
             threw |-> load.threw,
             result |-> IF load.threw = NoError THEN RootDocument(url, load)
                        ELSE ""]
    ELSE [url |-> url, stage |-> stage, hostAnswer |-> hostAnswer,
          baseAnswer |-> baseAnswer,
          calls |-> <<[fn |-> "documentLoader", url |-> url]>>,
          threw |-> baseAnswer.threw,
          result |-> baseAnswer.document]

\* the requests the loader is created for: one in the invocation pipeline,
\* and one in the revocation pipeline before and after its delegation stage
LoaderRequests ==
    LET rev == [FreshReq EXCEPT
                    !.pipeline = "rev",
                    !.originalUrl = ServicePath \o REVOCATIONS \o <<"z2">>,
                    !.revocationId = Str(<<"z2">>)]
    IN {[FreshReq EXCEPT !.pipeline = "inv", !.originalUrl = DocumentsPath],
        rev,
        [rev EXCEPT !.zcapRevocation =
            [set |-> TRUE, delegator |-> "admin",
             capabilityChain |-> <<Capability(One("admin")),
                                   Capability(One("delegate"))>>,
             chainControllers |-> <<"admin", "delegate">>]]}

LoaderStages(q) ==
    IF q.pipeline = "inv" THEN {"invoke"}
    ELSE IF q.zcapRevocation.set THEN {"invoke"} ELSE {"deleg"}

LoaderInit ==
    /\ config \in [onError : {"absent"}, inspect : {TRUE},
                   definition : {"second"}, limits : {DefaultLimits}]
    /\ pc = [r \in Reqs |-> "idle"]
    /\ \E q \in LoaderRequests :
            req = [r \in Reqs |-> IF r = 1 THEN q ELSE FreshReq]
    /\ res = [r \in Reqs |-> FreshRes]
    /\ fail = [r \in Reqs |-> NoFail]
    /\ log = [r \in Reqs |-> <<>>]
    /\ loads = [r \in Reqs |-> <<>>]

Load(r) ==
    /\ Len(loads[r]) < MaxLoads
    /\ \E url \in LoaderUrls, hostAnswer \in HostRootControllers,
          baseAnswer \in BaseAnswers, stage \in LoaderStages(req[r]) :
            loads' = [loads EXCEPT ![r] =
                        @ \o <<rootCapabilityLoader(req[r], stage, url,
                                                    hostAnswer, baseAnswer)>>]
    /\ UNCHANGED <<config, pc, req, res, fail, log>>

LoaderNext == \E r \in Reqs : req[r].pipeline # "" /\ Load(r)

LoaderSpec == LoaderInit /\ [][LoaderNext]_vars

(***************************************************************************)
(* Concurrent requests through one revocation pipeline.  Each middleware   *)
(* runs to its end before express calls the next, but between the          *)
(* middleware of one request those of another may run.  The requests are   *)
(* well-formed revocation requests, each with its own revocation id and    *)
(* its own submitted chain.                                                *)
(***************************************************************************)
\* the delegated capabilities of the chain of the capability a revocation
\* id names: their controllers, parent first
ChainOf(revocationId) ==
    IF revocationId = Str(<<"z2">>) THEN <<One("delegate")>>
    ELSE <<One("delegate"), One("other")>>

ConcurrentRequest(q) ==
    /\ q.revocationId.t = "string"
    /\ q.originalUrl =
            ServicePath \o REVOCATIONS \o encodeURIComponent(q.revocationId.s)
    /\ q.authorization \in {"unread", "signature"}
    /\ q.bodyHeaders \in {{}, {"content-length"}}
    /\ q.ezcap.signature => /\ q.bodyHeaders = {"content-length"}
                            /\ q.received = "b1"
                            /\ q.digest = "b1"
                            /\ q.body.kind = "doc"
    /\ q.method \in {"unread", "POST"}
    /\ q.capability.rootTarget \in {<<>>, ServiceObjectId(q)}
    /\ q.capability.controllers \in {<<>>, ChainOf(q.revocationId)}
    /\ q.invocation.rootTarget
            \in {<<>>, ZcapSpecificRootTarget(q.originalUrl, q.revocationId)}
    /\ q.invocation.delegatedTo = ""
    /\ q.invocation.keyController \in {"", "delegate"}

\* of the ways a request fails one is kept: a signature that does not verify
ConcurrentStep(r) ==
    LET q == req'[r]
        f == fail'[r]
    IN /\ ConcurrentRequest(q)
       /\ f.stage \in {"", "invoke"}
       /\ f.stage = "invoke" => q.invocation.rootTarget = <<>>

ConcurrentInit ==
    /\ config = [onError |-> "absent", inspect |-> TRUE,
                 definition |-> "second", limits |-> DefaultLimits]
    /\ pc = [r \in Reqs |-> "idle"]
    /\ req = [r \in Reqs |-> FreshReq]
    /\ res = [r \in Reqs |-> FreshRes]
    /\ fail = [r \in Reqs |-> NoFail]
    /\ log = [r \in Reqs |-> <<>>]
    /\ loads = [r \in Reqs |-> <<>>]

ConcurrentNext ==
    \/ \E r \in Reqs : ArriveRevocation(r) /\ ConcurrentStep(r)
    \/ \E r \in Reqs : RouteCheck(r)
    \/ \E r \in Reqs : ExpectationStage(r) /\ ConcurrentStep(r)
    \/ \E r \in Reqs : DelegationStage(r) /\ ConcurrentStep(r)
    \/ \E r \in Reqs : InvocationStage(r) /\ ConcurrentStep(r)
    \/ \E r \in Reqs : Leave(r)

ConcurrentSpec == ConcurrentInit /\ [][ConcurrentNext]_vars

(***************************************************************************)
(* Properties.                                                             *)
(***************************************************************************)
Called(r, call) == \E i \in 1..Len(log[r]) : log[r][i] = call

Failed == {"error", "returned", "responded"}

\* C1: the invocation verification stage hands the request to the downstream
\* handler only when the verification was verified, and req.zcap holds the
\* result by then; where the verification is not verified req.zcap is never
\* set and the handler never runs.
C1_NextOnlyWhenVerified ==
    \A r \in Reqs :
        /\ pc[r] = "handler" =>
                /\ req[r].zcap.set
                /\ req[r].zcap.verified
                /\ fail[r].stage = ""
        /\ req[r].zcap.set => pc[r] = "handler"
        /\ fail[r].stage = "invoke" =>
                /\ ~req[r].zcap.set
                /\ pc[r] \in {"sent", "error", "responded"}

\* an invocation request whose verification was verified is at its handler
C1_Witness ==
    \E r \in Reqs :
        /\ req[r].pipeline = "inv"
        /\ pc[r] = "handler"
        /\ req[r].zcap.verified
        /\ Called(r, "verifyCapabilityInvocation")

\* the stage that may follow each stage, per pipeline
C2_Successors(pipeline, stage) ==
    CASE stage = "idle" ->
            IF pipeline = "rev" THEN {"route"} ELSE {"expect"}
      [] stage = "route" -> {"expect"} \cup {"error", "returned"}
      [] stage = "expect" ->
            (IF pipeline = "rev" THEN {"deleg"} ELSE {"invoke"})
                \cup {"error", "returned"}
      [] stage = "deleg" -> {"invoke"} \cup {"error", "returned"}
      [] stage = "invoke" -> {"handler"} \cup {"sent", "error"}
      [] stage = "error" -> {"responded"}
      [] OTHER -> {"idle"}

C2_Stages == {"route", "expect", "deleg", "invoke", "handler"}

\* C2: both pipelines are strictly linear: a request moves from a stage only
\* to the next stage of its pipeline's fixed order, a stage or the handler
\* starts only while no stage of the request has failed, a failure is the
\* failure of the stage that was running, and once a stage has failed the
\* request only goes to the framework's error handling or leaves.
C2_StrictlyLinear ==
    [][\A r \in Reqs :
        pc'[r] # pc[r] =>
            /\ pc'[r] \in C2_Successors(IF pc[r] = "idle"
                                        THEN req'[r].pipeline
                                        ELSE req[r].pipeline, pc[r])
            /\ pc'[r] \in C2_Stages =>
                    fail[r].stage = "" /\ fail'[r].stage = ""
            /\ (fail[r].stage = "" /\ fail'[r].stage # "") =>
                    /\ fail'[r].stage = pc[r]
                    /\ pc'[r] \in {"error", "returned", "sent"}
            /\ fail[r].stage # "" => pc'[r] \in {"responded", "idle"}
      ]_vars

\* a revocation request has been through its four stages, in their order
C2_Witness ==
    \E r \in Reqs :
        /\ req[r].pipeline = "rev"
        /\ pc[r] = "handler"
        /\ log[r][1] = "route"
        /\ Called(r, "verifyDelegation")
        /\ Called(r, "verifyCapabilityInvocation")

\* C3: a request whose authorization header is missing or does not parse as
\* an HTTP-Signature header fails in the expectation stage with the
\* DataError 'Missing or invalid "authorization" header.' and status 400,
\* and neither the digest check, getExpectedValues, getRootController nor
\* any key resolution is called for it.
C3_MalformedAuthorization ==
    \A r \in Reqs :
        req[r].authorization \in {"missing", "malformed"} =>
            /\ fail[r].stage = "expect"
            /\ fail[r].error.name = "DataError"
            /\ fail[r].error.message =
                    "Missing or invalid \"authorization\" header."
            /\ res[r].statusCode = 400
            /\ pc[r] \in Failed
            /\ ~Called(r, "verifyHeaderValue")
            /\ ~Called(r, "getExpectedValues")
            /\ ~Called(r, "getRootController")
            /\ ~Called(r, "getVerifier")
            /\ ~Called(r, "verifyCapabilityInvocation")
            /\ loads[r] = <<>>

\* a request without an authorization header has failed
C3_Witness ==
    \E r \in Reqs :
        /\ req[r].authorization = "missing"
        /\ fail[r].stage = "expect"
        /\ Called(r, "parseSignatureHeader")

\* C4: a request is treated as having a body exactly when it carries a
\* content-length or transfer-encoding header; every such request without a
\* digest header ends with MissingDigest (DataError, status 400), and
\* getExpectedValues and the verification are not run for it.
C4_BodyHeadersRequireDigest ==
    \A r \in Reqs :
        req[r].ezcap.signature =>
            /\ (BodyHeaders(req[r].bodyHeaders) /\ req[r].digest = "") =>
                    /\ fail[r].stage = "expect"
                    /\ fail[r].error.name = "DataError"
                    /\ fail[r].error.message =
                            "A \"digest\" header must be present when an HTTP body is present."
                    /\ res[r].statusCode = 400
                    /\ pc[r] \in Failed
                    /\ ~Called(r, "getExpectedValues")
                    /\ ~Called(r, "verifyCapabilityInvocation")
            /\ ~BodyHeaders(req[r].bodyHeaders) =>
                    /\ ~Called(r, "verifyHeaderValue")
                    /\ fail[r].error # MissingDigest

\* C5: a request with a body whose digest header does not match the digest
\* of the received body ends with DigestMismatch (DataError, status 400),
\* and getExpectedValues and the verification are not run for it.
C5_DigestMismatch ==
    \A r \in Reqs :
        (/\ req[r].ezcap.signature
         /\ BodyHeaders(req[r].bodyHeaders)
         /\ req[r].digest # ""
         /\ req[r].digest # req[r].received) =>
            /\ fail[r].stage = "expect"
            /\ fail[r].error.name = "DataError"
            /\ fail[r].error.message =
                    "The \"digest\" header value does not match digest of body."
            /\ res[r].statusCode = 400
            /\ pc[r] \in Failed
            /\ ~Called(r, "getExpectedValues")
            /\ ~Called(r, "verifyCapabilityInvocation")

\* the getExpectedValues results C6 is about
C6_BadExpectedValues(value) ==
    \/ ~value.isObject
    \/ value.host.t # "string"
    \/ ~(\/ /\ value.rootInvocationTarget.t = "string"
            /\ Includes(value.rootInvocationTarget.s, <<":">>)
         \/ /\ value.rootInvocationTarget.t = "array"
            /\ value.rootInvocationTarget.a # <<>>
            /\ \A i \in 1..Len(value.rootInvocationTarget.a) :
                    /\ value.rootInvocationTarget.a[i].t = "string"
                    /\ Includes(value.rootInvocationTarget.a[i].s, <<":">>))

\* C6: when getExpectedValues returns what is not an object, or lacks a
\* string host, or has a rootInvocationTarget that is neither an absolute
\* URI nor a non-empty list of them, the request fails in the expectation
\* stage with the error of the check, its response status is 500 once the
\* request is over, and the invocation verification is not run.
C6_BadExpectedValuesIs500 ==
    \A r \in Reqs :
        (/\ req[r].expected.asked
         /\ req[r].expected.threw = NoError
         /\ C6_BadExpectedValues(req[r].expected.value)) =>
            /\ fail[r].stage = "expect"
            /\ fail[r].error.name \in {"TypeError", "Error"}
            /\ pc[r] \in Failed
            /\ pc[r] \in {"returned", "responded"} => res[r].statusCode = 500
            /\ ~Called(r, "verifyCapabilityInvocation")

\* C7: when the invocation verification is not verified, whatever error the
\* verifier reports, the response status is 403, the stage sends the
\* response, and next is not called.
C7_NotVerifiedIs403 ==
    \A r \in Reqs :
        fail[r].stage = "invoke" =>
            /\ res[r].statusCode = 403
            /\ res[r].sent
            /\ pc[r] = "sent"
            /\ ~fail[r].thrown

C9_RevocationRootControllers ==
    \A r \in Reqs :
        req[r].pipeline = "rev" =>
            /\ \A i \in 1..Len(loads[r]) :
                LET load == loads[r][i]
                IN load.threw = NoError =>
                    /\ load.target = ZcapSpecificRootTarget(
                            req[r].originalUrl, req[r].revocationId) =>
                            /\ req[r].zcapRevocation.set
                            /\ load.controller.array
                            /\ load.controller.v =
                                    req[r].zcapRevocation.chainControllers
                    /\ load.target = ServiceObjectId(req[r]) =>
                            load.controller = One("admin")
            /\ (pc[r] = "handler" /\ req[r].invocation.delegatedTo = "") =>
                    /\ req[r].invocation.rootTarget = ZcapSpecificRootTarget(
                            req[r].originalUrl, req[r].revocationId) =>
                            req[r].invocation.keyController \in
                                Elements(req[r].zcapRevocation.chainControllers)
                    /\ req[r].invocation.rootTarget = ServiceObjectId(req[r]) =>
                            req[r].invocation.keyController = "admin"

\* a delegate of the chain has authorized the revocation by invoking the
\* root of the revocation's own target
C9_Witness ==
    \E r \in Reqs :
        /\ req[r].pipeline = "rev"
        /\ pc[r] = "handler"
        /\ req[r].invocation.rootTarget =
                ZcapSpecificRootTarget(req[r].originalUrl, req[r].revocationId)
        /\ req[r].invocation.delegatedTo = ""
        /\ req[r].invocation.keyController = "delegate"
        /\ Len(loads[r]) = 2

\* C10: a submitted capability whose id starts with 'urn:zcap:root:' makes
\* the delegation stage fail at once with RootNotRevocable (NotAllowedError,
\* status 400, 'A root capability cannot be revoked.'): the delegation is
\* not verified, req.zcapRevocation is not published and the invocation
\* verification is not run.
C10_RootNotRevocable ==
    \A r \in Reqs :
        (/\ req[r].capability.id.t = "string"
         /\ StartsWith(req[r].capability.id.s, <<"urn", ":", "zcap", ":",
                                                 "root", ":">>)) =>
            /\ fail[r].stage = "deleg"
            /\ fail[r].error.name = "NotAllowedError"
            /\ fail[r].error.message = "A root capability cannot be revoked."
            /\ res[r].statusCode = 400
            /\ pc[r] \in Failed
            /\ ~Called(r, "verifyDelegation")
            /\ ~req[r].zcapRevocation.set
            /\ ~Called(r, "verifyCapabilityInvocation")
            /\ loads[r] = <<>>

\* the revocation of a root capability was asked for and refused
C10_Witness ==
    \E r \in Reqs :
        /\ req[r].capability.id.t = "string"
        /\ StartsWith(req[r].capability.id.s, ZCAP_ROOT_PREFIX)
        /\ fail[r].stage = "deleg"

\* the request's delegation stage has failed with InvalidDelegation
C11_InvalidDelegation(r) ==
    /\ fail[r].stage = "deleg"
    /\ fail[r].error.name = "DataError"
    /\ fail[r].error.message =
            "The provided capability delegation is invalid."
    /\ fail[r].error.cause # ""
    /\ res[r].statusCode = 400
    /\ pc[r] \in Failed
    /\ ~req[r].zcapRevocation.set
    /\ ~Called(r, "verifyCapabilityInvocation")

\* C11: in the revocation pipeline, whenever the verification of the
\* submitted delegation fails (no valid proof, a root that is not expected,
\* an error raised while a document is loaded), the delegation stage fails
\* with InvalidDelegation (DataError, status 400, the underlying error as its
\* cause), req.zcapRevocation is not published and the invocation
\* verification does not run; the verification of a delegation ends in that
\* failure or in the publication of req.zcapRevocation.
C11_DelegationFailureIsInvalidDelegation ==
    \A r \in Reqs :
        Called(r, "verifyDelegation") =>
            /\ \/ C11_InvalidDelegation(r)
               \/ req[r].zcapRevocation.set /\ fail[r].stage # "deleg"
            /\ ~req[r].capability.proof => C11_InvalidDelegation(r)
            /\ (/\ req[r].capability.rootTarget # <<>>
                /\ ~IsExpectedRoot(
                        ZCAP_ROOT_PREFIX
                            \o encodeURIComponent(req[r].capability.rootTarget),
                        req[r].ezcap.expectedRootCapability)) =>
                    C11_InvalidDelegation(r)
            /\ \A i \in 1..Len(loads[r]) :
                    (loads[r][i].stage = "deleg"
                        /\ loads[r][i].threw # NoError) =>
                        /\ C11_InvalidDelegation(r)
                        /\ fail[r].error.cause = loads[r][i].threw.name

\* the host's getRootController threw while the root of the submitted chain
\* was loaded, and the delegation stage failed
C11_Witness ==
    \E r \in Reqs :
        /\ Len(loads[r]) = 1
        /\ loads[r][1].stage = "deleg"
        /\ loads[r][1].threw.name = "NotFoundError"
        /\ fail[r].stage = "deleg"
        /\ fail[r].error.cause = "NotFoundError"

\* C12: in the revocation pipeline, a submitted delegation whose chain's
\* root invocation target neither equals serviceObjectId nor has it as a
\* path prefix yields UnrelatedServiceObject (NotAllowedError) with status
\* 403.
C12_UnrelatedServiceObjectIs403 ==
    \A r \in Reqs :
        (/\ req[r].pipeline = "rev"
         /\ req[r].capability.rootTarget # <<>>
         /\ req[r].capability.rootTarget # ServiceObjectId(req[r])
         /\ ~StartsWith(req[r].capability.rootTarget,
                        ServiceObjectId(req[r]) \o <<"/">>)) =>
            /\ fail[r].stage = "deleg"
            /\ fail[r].error.name = "NotAllowedError"
            /\ res[r].statusCode = 403

\* C13: in the revocation pipeline the synthesized expected values are
\* host = expectedHost, action = write and rootInvocationTarget =
\* [serviceObjectId, serviceObjectId + '/revocations/' + the encoded
\* revocationId], serviceObjectId being 'https://' + expectedHost + the
\* request path before '/revocations/'; the expected action is write
\* whatever the HTTP method of the request.
C13_SynthesizedExpectedValues ==
    \A r \in Reqs :
        (req[r].pipeline = "rev" /\ req[r].expected.asked) =>
            LET serviceObjectId == HTTPS \o EXPECTED_HOST \o ServicePath
            IN /\ req[r].expected.value.host = Str(EXPECTED_HOST)
               /\ req[r].expected.value.rootInvocationTarget =
                    Arr(<<El(serviceObjectId),
                          El(serviceObjectId \o REVOCATIONS
                                \o encodeURIComponent(req[r].revocationId.s))>>)
               /\ fail[r].stage # "expect"
               /\ req[r].ezcap.expectedAction = Str(<<"write">>)

\* C14: in the revocation pipeline every request whose route does not end
\* in '/revocations/<revocationId>', or that has no revocationId route
\* parameter, fails with Misconfigured and status 500 before the
\* authorization header is parsed and before getExpectedValues, delegation
\* verification or invocation verification run.
C14_MisroutedIsMisconfigured ==
    \A r \in Reqs :
        LET url == req[r].originalUrl
            suffix == REVOCATIONS \o encodeURIComponent(req[r].revocationId.s)
            endsInRevocation ==
                /\ req[r].revocationId.t = "string"
                /\ Len(url) >= Len(suffix)
                /\ SubSeq(url, Len(url) - Len(suffix) + 1, Len(url)) = suffix
        IN (req[r].pipeline = "rev" /\ Called(r, "route")
                /\ ~endsInRevocation) =>
                /\ fail[r].stage = "route"
                /\ fail[r].error.httpStatusCode = 500
                /\ res[r].statusCode = 500
                /\ pc[r] \in Failed
                /\ ~Called(r, "parseSignatureHeader")
                /\ ~Called(r, "getExpectedValues")
                /\ ~Called(r, "verifyDelegation")
                /\ ~Called(r, "verifyCapabilityInvocation")

\* C15: in the revocation pipeline, whenever the downstream handler runs,
\* req.zcap and req.zcapRevocation = {delegator, capabilityChain,
\* chainControllers} are both set and derive from the request at hand: the
\* invocation result from the key and root capability of its invocation, the
\* revocation context from the capability it submitted; and
\* req.zcapRevocation is published only after the submitted delegation
\* verified.
C15_HandlerHasZcapAndRevocation ==
    \A r \in Reqs :
        LET q == req[r]
            chain == q.zcapRevocation.capabilityChain
        IN /\ (q.pipeline = "rev" /\ pc[r] = "handler") =>
                /\ fail[r].stage = ""
                /\ q.zcap.set /\ q.zcap.verified
                /\ q.zcap.invoker = q.invocation.keyController
                /\ q.zcap.root = RootId(q.invocation.rootTarget)
                /\ q.zcapRevocation.set
           /\ q.zcapRevocation.set =>
                /\ q.pipeline = "rev"
                /\ Called(r, "verifyDelegation")
                /\ fail[r].stage \notin {"route", "expect", "deleg"}
                /\ q.capability.proof
                /\ IsExpectedRoot(RootId(q.capability.rootTarget),
                                  q.ezcap.expectedRootCapability)
                /\ Len(chain) = Len(q.capability.controllers) + 1
                /\ \A i \in 1..Len(q.capability.controllers) :
                        chain[i + 1] = Capability(q.capability.controllers[i])
                /\ \E load \in Elements(loads[r]) :
                        /\ load.stage = "deleg"
                        /\ load.threw = NoError
                        /\ chain[1] = Capability(load.controller)
                /\ q.zcapRevocation.delegator \in
                        Elements(_getCapabilityControllers(
                                    chain[Len(chain) - 1]))
                /\ q.zcapRevocation.chainControllers =
                        _captureChainControllers(chain, Len(chain))

C15_Witness ==
    \E r \in Reqs :
        /\ req[r].pipeline = "rev"
        /\ pc[r] = "handler"
        /\ req[r].zcap.set
        /\ req[r].zcapRevocation.set
        /\ Len(req[r].zcapRevocation.capabilityChain) >= 2
        /\ Len(req[r].zcapRevocation.chainControllers) >= 2

\* C16: inspectCapabilityChain is optional for the revocation pipeline: when
\* the host supplies none, a submitted delegation whose chain verified (it
\* carries a proof, is rooted in an expected root capability that loaded, and
\* its signatures hold) is accepted: the delegation stage succeeds and
\* publishes the revocation context.
C16_AcceptedWithoutInspector ==
    \A r \in Reqs :
        (/\ req[r].pipeline = "rev"
         /\ ~config.inspect
         /\ Called(r, "verifyDelegation")
         /\ Called(r, "_inspectCapabilityChain")) =>
            /\ fail[r].stage # "deleg"
            /\ req[r].zcapRevocation.set

C18_HostGetVerifierResolvesKey ==
    \A r \in Reqs :
        Called(r, "verifyCapabilityInvocation") =>
            /\ Called(r, HostGetVerifier)
            /\ ~Called(r, "getVerifier")

\* C19: the maxChainLength and maxDelegationTtl given to
\* authorizeZcapInvocation are the bounds the invocation verification
\* enforces: a request whose invoked chain is longer than the configured
\* maxChainLength, or holds a delegation that lives longer than the
\* configured maxDelegationTtl, is not authorized: the verification fails,
\* req.zcap is not set and the handler does not run.
C19_ConfiguredLimitsEnforced ==
    \A r \in Reqs :
        (/\ req[r].pipeline = "inv"
         /\ Called(r, "verifyCapabilityInvocation")
         /\ \/ req[r].invocation.chainLength > config.limits.maxChainLength
            \/ req[r].invocation.ttl > config.limits.maxDelegationTtl) =>
            /\ fail[r].stage = "invoke"
            /\ ~req[r].zcap.set
            /\ pc[r] # "handler"

\* C20: when getExpectedValues returns no action, the expected action is
\* read for GET, HEAD, OPTIONS and write for POST, PUT, PATCH, DELETE,
\* CONNECT, TRACE; with any other method the request fails with
\* UnsupportedMethod (NotSupportedError, 400) and no verification runs.
\* When an action is returned it is the expected action, whatever the
\* method.
C20_DefaultActionForMethod ==
    \A r \in Reqs :
        LET q == req[r]
            returned == q.expected.value.action
            settled == /\ q.expected.asked
                       /\ q.expected.threw = NoError
                       /\ _checkExpectedValues(q.expected.value) = NoError
        IN settled =>
            IF returned.t = "undefined"
            THEN /\ q.method \in {"GET", "HEAD", "OPTIONS"} =>
                        /\ fail[r].stage # "expect"
                        /\ q.ezcap.expectedAction = Str(<<"read">>)
                 /\ q.method \in {"POST", "PUT", "PATCH", "DELETE", "CONNECT",
                                 "TRACE"} =>
                        /\ fail[r].stage # "expect"
                        /\ q.ezcap.expectedAction = Str(<<"write">>)
                 /\ q.method \notin {"GET", "HEAD", "OPTIONS", "POST", "PUT",
                                    "PATCH", "DELETE", "CONNECT", "TRACE"} =>
                        /\ fail[r].stage = "expect"
                        /\ fail[r].error.name = "NotSupportedError"
                        /\ fail[r].error.httpStatusCode = 400
                        /\ res[r].statusCode = 400
                        /\ pc[r] \in Failed
                        /\ ~Called(r, "verifyDelegation")
                        /\ ~Called(r, "verifyCapabilityInvocation")
            ELSE /\ fail[r].stage # "expect"
                 /\ q.ezcap.expectedAction = returned

C20_Witness ==
    /\ \E r \in Reqs :
        /\ req[r].expected.value.action.t = "undefined"
        /\ req[r].method = "DELETE"
        /\ req[r].ezcap.expectedAction = Str(<<"write">>)
        /\ Called(r, "verifyCapabilityInvocation")

\* C21: when getExpectedValues returns no target, the expected target
\* handed to the invocation verification is 'https://' + the expected host +
\* the original path and query of the request; a target that is returned is
\* handed on unchanged.
C21_DefaultTarget ==
    \A r \in Reqs :
        LET q == req[r]
        IN (Called(r, "getExpectedValues") /\ fail[r].stage # "expect"
                /\ pc[r] # "expect") =>
            IF q.expected.value.target.t = "undefined"
            THEN q.ezcap.expectedTarget =
                    Str(HTTPS \o q.expected.value.host.s \o q.originalUrl)
            ELSE q.ezcap.expectedTarget = q.expected.value.target

C21_Witness ==
    \E r \in Reqs :
        /\ req[r].originalUrl = DocumentsPath \o <<"?", "limit">>
        /\ req[r].expected.value.target.t = "undefined"
        /\ req[r].ezcap.expectedTarget =
                Str(HTTPS \o EXPECTED_HOST \o DocumentsPath \o <<"?", "limit">>)
        /\ Called(r, "verifyCapabilityInvocation")

\* C22: a target supplied by getExpectedValues must be a string that
\* expresses an absolute URI: whenever the supplied target is not a string,
\* or is a string without a scheme, the request fails in the expectation
\* stage and no verification runs.
C22_BadTargetRejected ==
    \A r \in Reqs :
        LET target == req[r].expected.value.target
        IN (/\ req[r].expected.asked
            /\ req[r].expected.threw = NoError
            /\ target.t # "undefined"
            /\ ~(target.t = "string" /\ Includes(target.s, <<":">>))) =>
                /\ fail[r].stage = "expect"
                /\ pc[r] \in Failed
                /\ ~Called(r, "verifyDelegation")
                /\ ~Called(r, "verifyCapabilityInvocation")

\* C23: the chainControllers published in req.zcapRevocation are a
\* duplicate-free list in insertion order: every controller of every
\* capability of the chain occurs in it, and occurs exactly once.
C23_ChainControllersDeduplicated ==
    \A r \in Reqs :
        LET chain == req[r].zcapRevocation.capabilityChain
            chainControllers == req[r].zcapRevocation.chainControllers
        IN req[r].zcapRevocation.set =>
            /\ \A i \in 1..Len(chain) :
                    Elements(_getCapabilityControllers(chain[i]))
                        \subseteq Elements(chainControllers)
            /\ \A i, j \in 1..Len(chainControllers) :
                    chainControllers[i] = chainControllers[j] => i = j

\* C24 as the specification has it: for every URL that starts with
\* 'urn:zcap:root:' the loader calls getRootController and returns a
\* document whose id is that URL.
C24_EveryRootUrlLoads ==
    \A r \in Reqs : \A i \in 1..Len(loads[r]) :
        LET e == loads[r][i]
        IN StartsWith(e.url, ZCAP_ROOT_PREFIX) =>
            /\ \E c \in Elements(e.calls) : c.fn = "getRootController"
            /\ e.threw = NoError => e.result.document.id = e.url

\* C24: for every URL that starts with 'urn:zcap:root:' and whose suffix
\* percent-decodes, each load calls getRootController once with the URL as
\* rootCapabilityId and the decoded suffix as rootInvocationTarget, and what
\* the call answers at that load is what the load gives: its error, or a
\* document at that URL whose invocationTarget is the decoded suffix, whose
\* controller is the answer and whose id is 'urn:zcap:root:' + the encoded
\* target.  A suffix that does not decode throws URIError with no call
\* made.  Every other URL gets the base loader's result and no call of
\* getRootController.
C24_RootCapabilityLoader ==
    \A r \in Reqs : \A i \in 1..Len(loads[r]) :
        LET e == loads[r][i]
            decoded == decodeURIComponent(
                            SubSeq(e.url, Len(ZCAP_ROOT_PREFIX) + 1,
                                   Len(e.url)))
            answer == getRootController(req[r], e.stage, decoded.s,
                                        e.hostAnswer)
        IN IF ~StartsWith(e.url, ZCAP_ROOT_PREFIX)
           THEN /\ e.calls = <<[fn |-> "documentLoader", url |-> e.url]>>
                /\ e.threw = e.baseAnswer.threw
                /\ e.result = e.baseAnswer.document
           ELSE IF ~decoded.ok
           THEN /\ e.calls = <<>>
                /\ e.threw.name = "URIError"
           ELSE /\ e.calls = <<[fn |-> "getRootController",
                                rootCapabilityId |-> e.url,
                                rootInvocationTarget |-> decoded.s]>>
                /\ e.threw = answer.threw
                /\ e.threw = NoError =>
                    /\ e.result.documentUrl = e.url
                    /\ e.result.document.invocationTarget = decoded.s
                    /\ e.result.document.controller = answer.controller
                    /\ e.result.document.id =
                            ZCAP_ROOT_PREFIX \o encodeURIComponent(decoded.s)

C24_Witness ==
    \E r \in Reqs :
        /\ Len(loads[r]) = 2
        /\ loads[r][1].url = RootId(DocumentsTarget)
        /\ loads[r][2].url = RootId(DocumentsTarget)
        /\ loads[r][1].threw = NoError
        /\ loads[r][1].result.document.controller = One("admin")
        /\ loads[r][2].threw.name = "NotFoundError"
        /\ Len(loads[r][2].calls) = 1

\* C25: the expected root capability identifiers are 'urn:zcap:root:' + the
\* percent-encoding of each root invocation target: one string gives one
\* identifier, a list gives a list of the same length in the same order;
\* and loading a computed identifier through the root capability loader
\* asks for, and yields a root capability on, the original target.
C25_ExpectedRootCapabilityRoundTrip ==
    \A r \in Reqs :
        LET q == req[r]
            targets == q.expected.value.rootInvocationTarget
            ids == q.ezcap.expectedRootCapability
            stage == IF q.pipeline = "rev" /\ ~q.zcapRevocation.set
                     THEN "deleg" ELSE "invoke"
            RoundTrip(id, target) ==
                /\ id = ZCAP_ROOT_PREFIX \o encodeURIComponent(target)
                /\ \A hostAnswer \in HostRootControllers :
                    LET load == getRootCapability(q, stage, id, hostAnswer)
                    IN /\ load.threw.name # "URIError"
                       /\ load.target = target
                       /\ load.threw = NoError => load.id = id
                /\ \A i \in 1..Len(loads[r]) :
                    loads[r][i].url = id => loads[r][i].target = target
        IN (Called(r, "getExpectedValues") /\ fail[r].stage # "expect"
                /\ pc[r] # "expect") =>
            IF targets.t = "array"
            THEN /\ ids.t = "array"
                 /\ Len(ids.a) = Len(targets.a)
                 /\ \A i \in 1..Len(targets.a) :
                        /\ ids.a[i].t = "string"
                        /\ RoundTrip(ids.a[i].s, targets.a[i].s)
            ELSE /\ ids.t = "string"
                 /\ RoundTrip(ids.s, targets.s)

C25_Witness ==
    \E r \in Reqs :
        /\ req[r].ezcap.expectedRootCapability.t = "array"
        /\ Len(req[r].ezcap.expectedRootCapability.a) = 2
        /\ Includes(req[r].expected.value.rootInvocationTarget.a[2].s,
                    <<"%">>)
        /\ Len(loads[r]) = 2
        /\ loads[r][2].url = req[r].ezcap.expectedRootCapability.a[2].s
        /\ loads[r][2].threw = NoError

\* C26: when the headers of a request indicate no body (neither
\* content-length nor transfer-encoding, with or without a content-type),
\* the expectation stage asks for no digest header and checks none, and
\* req.body is undefined by the time getExpectedValues is called and for
\* every later stage, whatever the body parsers had left in it.
C26_NoBodyHeadersClearBody ==
    \A r \in Reqs :
        (/\ req[r].ezcap.signature
         /\ pc[r] # "expect"
         /\ "content-length" \notin req[r].bodyHeaders
         /\ "transfer-encoding" \notin req[r].bodyHeaders) =>
            /\ Called(r, "getExpectedValues")
            /\ ~Called(r, "verifyHeaderValue")
            /\ fail[r].error.name # "DataError" \/ fail[r].stage # "expect"
            /\ req[r].body = NoBody

C26_Witness ==
    \E r \in Reqs :
        /\ req[r].bodyHeaders = {"content-type"}
        /\ req[r].digest = ""
        /\ req[r].body = NoBody
        /\ Called(r, "getExpectedValues")
        /\ pc[r] = "handler"

\* C27: under any interleaving of the middleware of concurrent requests
\* through one revocation pipeline, what a request holds derives from that
\* request alone: its expected values from its own URL, its revocation
\* context from the chain it submitted, and the controllers the
\* zcap-specific revocation root is given while it is verified are those of
\* its own chain; the configuration, the one thing the requests share, never
\* changes.
C27_RequestsIsolated ==
    /\ config = [onError |-> "absent", inspect |-> TRUE,
                 definition |-> "second", limits |-> DefaultLimits]
    /\ \A r \in Reqs :
        LET q == req[r]
            own == <<One("admin")>> \o ChainOf(q.revocationId)
            ownControllers == [i \in 1..Len(own) |-> own[i].v[1]]
            serviceObjectId == HTTPS \o EXPECTED_HOST \o ServicePath
        IN /\ q.ezcap.expectedAction.t # "undefined" =>
                /\ q.ezcap.expectedTarget =
                        Str(HTTPS \o EXPECTED_HOST \o q.originalUrl)
                /\ q.ezcap.expectedRootCapability =
                        Arr(<<El(RootId(serviceObjectId)),
                              El(RootId(serviceObjectId \o REVOCATIONS
                                    \o encodeURIComponent(
                                            q.revocationId.s)))>>)
           /\ q.zcapRevocation.set =>
                /\ q.zcapRevocation.chainControllers = ownControllers
                /\ Len(q.zcapRevocation.capabilityChain) = Len(own)
           /\ \A i \in 1..Len(loads[r]) :
                loads[r][i].source = "chain" =>
                    /\ loads[r][i].threw = NoError
                    /\ loads[r][i].controller = Many(ownControllers)

C27_Witness ==
    /\ pc[1] = "handler"
    /\ pc[2] = "handler"
    /\ req[1].revocationId # req[2].revocationId
    /\ req[1].zcapRevocation.chainControllers
            # req[2].zcapRevocation.chainControllers
    /\ \A r \in {1, 2} :
            \E i \in 1..Len(loads[r]) : loads[r][i].source = "chain"

\* C28: every request that has entered a pipeline and is no longer running
\* in it has exactly one outcome: the downstream handler was called, the
\* middleware sent a response, or an error was handed to the framework; this
\* for every onError, one that returns when a stage before the verification
\* fails included.
C28_ExactlyOneOutcome ==
    \A r \in Reqs :
        pc[r] \in Terminal =>
            LET handlerCalled == pc[r] = "handler"
                responseSent == res[r].sent /\ ~fail[r].thrown
                handedToFramework == fail[r].thrown
            IN /\ handlerCalled \/ responseSent \/ handedToFramework
               /\ ~(handlerCalled /\ responseSent)
               /\ ~(handlerCalled /\ handedToFramework)
               /\ ~(responseSent /\ handedToFramework)

\* C29: in the revocation pipeline every read of
\* req.zcapRevocation.chainControllers by the wrapped getRootController
\* comes after the delegation stage has published req.zcapRevocation for the
\* request: no root capability is given the chain's controllers while the
\* delegation is verified, and no such read finds req.zcapRevocation
\* undefined.
C29_ReadAfterPublished ==
    \A r \in Reqs :
        \A i \in 1..Len(loads[r]) :
            loads[r][i].source = "chain" =>
                /\ loads[r][i].stage = "invoke"
                /\ loads[r][i].threw # ReadOfUndefined
                /\ req[r].zcapRevocation.set

\* C30: while the delegation is verified in the revocation pipeline the
\* host's getRootController is consulted for a root invocation target only
\* if the target is serviceObjectId or starts with serviceObjectId + "/";
\* for any other target, one that only extends serviceObjectId's last path
\* segment included, the load is rejected with the NotAllowedError and the
\* host's getRootController is not called.
C30_HostConsultedWithinServiceObject ==
    \A r \in Reqs :
        \A i \in 1..Len(loads[r]) :
            LET load == loads[r][i]
                serviceObjectId == ServiceObjectId(req[r])
                within == \/ load.target = serviceObjectId
                          \/ StartsWith(load.target,
                                        serviceObjectId \o <<"/">>)
            IN (req[r].pipeline = "rev" /\ load.stage = "deleg") =>
                /\ load.source = "host" => within
                /\ ~within =>
                    /\ load.source = "none"
                    /\ load.threw = UnrelatedServiceObject
                    /\ load.controller = NoController
                    /\ ~Called(r, "getRootController")

C30_Witness ==
    \E r \in Reqs :
        /\ req[r].pipeline = "rev"
        /\ Len(loads[r]) = 1
        /\ loads[r][1].stage = "deleg"
        /\ loads[r][1].target = ServiceObjectId(req[r]) \o <<"2">>
        /\ loads[r][1].threw = UnrelatedServiceObject
        /\ fail[r].stage = "deleg"

====
